---- MODULE Spec2Model ----
(***************************************************************************)
(* Model of osxkeychain/osxkeychain_darwin.go: the OS X Keychain backend   *)
(* of the credential helper.  Go strings and C strings are sequences of    *)
(* one-character strings; NUL stands for the zero byte.                    *)
(***************************************************************************)
EXTENDS Integers, Sequences, FiniteSets, TLC

VARIABLES keychain, foreign, hist, input

vars == <<keychain, foreign, hist, input>>

-----------------------------------------------------------------------------
(* Characters and Go's strings package                                     *)

NUL == "NUL"

LowerSeq == <<"a","b","c","d","e","f","g","h","i","j","k","l","m",
              "n","o","p","q","r","s","t","u","v","w","x","y","z">>

UpperSeq == <<"A","B","C","D","E","F","G","H","I","J","K","L","M",
              "N","O","P","Q","R","S","T","U","V","W","X","Y","Z">>

DigitSeq == <<"0","1","2","3","4","5","6","7","8","9">>

Range(f) == {f[i] : i \in DOMAIN f}

Letters == Range(LowerSeq) \cup Range(UpperSeq)

Digits == Range(DigitSeq)

IsLetter(c) == c \in Letters

IsDigit(c) == c \in Digits

DigitVal(c) == (CHOOSE i \in DOMAIN DigitSeq : DigitSeq[i] = c) - 1

ToLowerChar(c) ==
    IF c \in Range(UpperSeq)
    THEN LowerSeq[CHOOSE i \in DOMAIN UpperSeq : UpperSeq[i] = c]
    ELSE c

ToLower(s) == [i \in DOMAIN s |-> ToLowerChar(s[i])]

HasPrefix(s, p) == Len(s) >= Len(p) /\ SubSeq(s, 1, Len(p)) = p

Drop(s, n) == SubSeq(s, n + 1, Len(s))

Contains(s, c) == \E i \in DOMAIN s : s[i] = c

\* strings.Index: the first position of c in s, 0 when there is none
Index(s, c) ==
    IF Contains(s, c)
    THEN CHOOSE i \in DOMAIN s : s[i] = c /\ \A j \in 1..(i - 1) : s[j] # c
    ELSE 0

\* strings.LastIndex: the last position of c in s, 0 when there is none
LastIndex(s, c) ==
    IF Contains(s, c)
    THEN CHOOSE i \in DOMAIN s : s[i] = c /\ \A j \in (i + 1)..Len(s) : s[j] # c
    ELSE 0

Count(s, c) == Cardinality({i \in DOMAIN s : s[i] = c})

\* strings.Cut, the separator found at position i (0: not found)
CutAt(s, i) ==
    IF i = 0 THEN [before |-> s, after |-> <<>>]
    ELSE [before |-> SubSeq(s, 1, i - 1), after |-> Drop(s, i)]

Cut(s, c) == CutAt(s, Index(s, c))

-----------------------------------------------------------------------------
(* Errors.  A Go error is a record: its dynamic type and its message.      *)

nil == [type |-> "nil", msg |-> <<>>]

errorsNew(m) == [type |-> "errorString", msg |-> m]

urlError(m) == [type |-> "url.Error", msg |-> m]

numError(m) == [type |-> "strconv.NumError", msg |-> m]

\* errCredentialsNotFound: the message OS X gives for a missing item
errCredentialsNotFound == <<"The specified item could not be found in the keychain.">>

\* credentials.NewErrCredentialsNotFound()
NewErrCredentialsNotFound ==
    [type |-> "errCredentialsNotFound",
     msg |-> <<"credentials not found in native keychain">>]

-----------------------------------------------------------------------------
(* net/url as splitServer uses it                                           *)

EmptyURL == [Scheme |-> <<>>, Opaque |-> <<>>, User |-> <<>>, Host |-> <<>>,
             Path |-> <<>>, RawQuery |-> <<>>, Fragment |-> <<>>]

\* url.getScheme: the loop over the bytes of rawURL, from byte i
RECURSIVE getSchemeFrom(_, _)
getSchemeFrom(rawURL, i) ==
    IF i > Len(rawURL)
    THEN [scheme |-> <<>>, path |-> rawURL, err |-> nil]
    ELSE LET c == rawURL[i] IN
         IF IsLetter(c) THEN getSchemeFrom(rawURL, i + 1)
         ELSE IF IsDigit(c) \/ c \in {"+", "-", "."}
         THEN IF i = 1
              THEN [scheme |-> <<>>, path |-> rawURL, err |-> nil]
              ELSE getSchemeFrom(rawURL, i + 1)
         ELSE IF c = ":"
         THEN IF i = 1
              THEN [scheme |-> <<>>, path |-> <<>>,
                    err |-> urlError(<<"missing protocol scheme">>)]
              ELSE [scheme |-> SubSeq(rawURL, 1, i - 1), path |-> Drop(rawURL, i),
                    err |-> nil]
         ELSE [scheme |-> <<>>, path |-> rawURL, err |-> nil]

getScheme(rawURL) == getSchemeFrom(rawURL, 1)

\* url.validOptionalPort: "" or ":" followed by digits only
validOptionalPort(port) ==
    \/ port = <<>>
    \/ /\ port[1] = ":"
       /\ \A i \in 2..Len(port) : IsDigit(port[i])

\* bytes a host may hold unescaped (url.shouldEscape, mode encodeHost)
HostCharOK(c) ==
    \/ IsLetter(c) \/ IsDigit(c)
    \/ c \in {"-", "_", ".", "~", "!", "$", "&", "'", "(", ")", "*", "+", ",",
              ";", "=", ":", "[", "]", "<", ">", "\""}

\* url.parseHost, for a host that does not start with "[" (the alphabet of
\* the inputs has neither "[" nor "%", so unescape leaves the host as it is)
parseHostAt(host, i) ==
    IF i # 0 /\ ~validOptionalPort(Drop(host, i - 1))
    THEN [host |-> <<>>, err |-> urlError(<<"invalid port after host">>)]
    ELSE IF \E j \in DOMAIN host : ~HostCharOK(host[j])
    THEN [host |-> <<>>, err |-> urlError(<<"invalid character in host name">>)]
    ELSE [host |-> host, err |-> nil]

parseHost(host) == parseHostAt(host, LastIndex(host, ":"))

\* url.validUserinfo
validUserinfo(s) ==
    \A i \in DOMAIN s :
        \/ IsLetter(s[i]) \/ IsDigit(s[i])
        \/ s[i] \in {"-", ".", "_", ":", "~", "!", "$", "&", "'", "(", ")", "*",
                     "+", ",", ";", "=", "%", "@"}

\* url.parseAuthority, after its call of parseHost: i is the position of the
\* last "@" (0: none), h what parseHost returned
parseAuthorityHost(authority, i, h) ==
    IF h.err # nil THEN [user |-> <<>>, host |-> <<>>, err |-> h.err]
    ELSE IF i = 0 THEN [user |-> <<>>, host |-> h.host, err |-> nil]
    ELSE IF ~validUserinfo(SubSeq(authority, 1, i - 1))
    THEN [user |-> <<>>, host |-> <<>>, err |-> urlError(<<"invalid userinfo">>)]
    ELSE [user |-> SubSeq(authority, 1, i - 1), host |-> h.host, err |-> nil]

parseAuthorityAt(authority, i) ==
    parseAuthorityHost(authority, i, parseHost(Drop(authority, i)))

\* url.parseAuthority
parseAuthority(authority) == parseAuthorityAt(authority, LastIndex(authority, "@"))

\* url.parse, the authority cut off the rest: a is what parseAuthority returned
parseAuthorityDone(scheme, a, path, query) ==
    IF a.err # nil THEN [u |-> EmptyURL, err |-> a.err]
    ELSE [u |-> [EmptyURL EXCEPT !.Scheme = scheme, !.User = a.user, !.Host = a.host,
                                 !.Path = path, !.RawQuery = query],
          err |-> nil]

\* url.parse, rest[2:] split at its first "/" (at position i; 0: none)
parseAuthorityCut(scheme, authority, i, query) ==
    parseAuthorityDone(scheme,
        parseAuthority(IF i = 0 THEN authority ELSE SubSeq(authority, 1, i - 1)),
        IF i = 0 THEN <<>> ELSE Drop(authority, i - 1),
        query)

\* url.parse, after the scheme and the query are split off
parseRest(scheme, rest, query) ==
    IF ~HasPrefix(rest, <<"/">>) /\ scheme # <<>>
    THEN [u |-> [EmptyURL EXCEPT !.Scheme = scheme, !.Opaque = rest, !.RawQuery = query],
          err |-> nil]
    ELSE IF ~HasPrefix(rest, <<"/">>) /\ Contains(Cut(rest, "/").before, ":")
    THEN [u |-> EmptyURL,
          err |-> urlError(<<"first path segment in URL cannot contain colon">>)]
    ELSE IF (scheme # <<>> \/ ~HasPrefix(rest, <<"/", "/", "/">>))
            /\ HasPrefix(rest, <<"/", "/">>)
    THEN parseAuthorityCut(scheme, Drop(rest, 2), Index(Drop(rest, 2), "/"), query)
    ELSE [u |-> [EmptyURL EXCEPT !.Scheme = scheme, !.Path = rest, !.RawQuery = query],
          err |-> nil]

\* url.parse, splitting the query off: a lone trailing "?" is dropped
\* (ForceQuery), otherwise the string is cut at its first "?"
parseQuery(scheme, rest) ==
    IF rest # <<>> /\ rest[Len(rest)] = "?" /\ Count(rest, "?") = 1
    THEN parseRest(scheme, SubSeq(rest, 1, Len(rest) - 1), <<>>)
    ELSE parseRest(scheme, Cut(rest, "?").before, Cut(rest, "?").after)

\* url.parse, after getScheme returned sc
parseScheme(sc) ==
    IF sc.err # nil THEN [u |-> EmptyURL, err |-> sc.err]
    ELSE parseQuery(ToLower(sc.scheme), sc.path)

\* url.parse(rawURL, viaRequest = false)
parse(rawURL) ==
    IF Contains(rawURL, NUL)
    THEN [u |-> EmptyURL, err |-> urlError(<<"invalid control character in URL">>)]
    ELSE IF rawURL = <<"*">>
    THEN [u |-> [EmptyURL EXCEPT !.Path = rawURL], err |-> nil]
    ELSE parseScheme(getScheme(rawURL))

\* url.Parse, after parse returned r for the part before "#"
urlParseFragment(r, frag) ==
    IF r.err # nil THEN r
    ELSE [u |-> [r.u EXCEPT !.Fragment = frag], err |-> nil]

\* url.Parse: cut the fragment off, then parse
urlParse(rawURL) == urlParseFragment(parse(Cut(rawURL, "#").before), Cut(rawURL, "#").after)

splitHostPortAt(hostPort, colon) ==
    IF colon # 0 /\ validOptionalPort(Drop(hostPort, colon - 1))
    THEN [host |-> SubSeq(hostPort, 1, colon - 1), port |-> Drop(hostPort, colon)]
    ELSE [host |-> hostPort, port |-> <<>>]

\* url.splitHostPort (hosts in brackets are outside the inputs' alphabet)
splitHostPort(hostPort) == splitHostPortAt(hostPort, LastIndex(hostPort, ":"))

Hostname(u) == splitHostPort(u.Host).host

Port(u) == splitHostPort(u.Host).port

-----------------------------------------------------------------------------
(* strconv.Atoi and the C types.  A Go int has 64 bits: it is kept as its  *)
(* significant decimal digits (<<>> is 0).  A C.uint has 32 bits: it is    *)
(* kept as its two 16-bit halves.                                          *)

MaxInt64Digits == <<"9","2","2","3","3","7","2","0","3","6","8","5","4","7","7","5","8","0","7">>

RECURSIVE StripZeros(_)
StripZeros(s) == IF s # <<>> /\ s[1] = "0" THEN StripZeros(Tail(s)) ELSE s

\* a <= b for two digit strings of the same length
DigitsLE(a, b) ==
    \/ a = b
    \/ \E i \in DOMAIN a : /\ DigitVal(a[i]) < DigitVal(b[i])
                           /\ \A j \in 1..(i - 1) : a[j] = b[j]

\* strconv.Atoi, the range check on the significant digits
AtoiRange(sig) ==
    IF \/ Len(sig) > Len(MaxInt64Digits)
       \/ Len(sig) = Len(MaxInt64Digits) /\ ~DigitsLE(sig, MaxInt64Digits)
    THEN [val |-> <<>>, err |-> numError(<<"value out of range">>)]
    ELSE [val |-> sig, err |-> nil]

\* strconv.Atoi on an unsigned digit string (url.Port() holds digits only)
Atoi(s) ==
    IF s = <<>> \/ \E i \in DOMAIN s : ~IsDigit(s[i])
    THEN [val |-> <<>>, err |-> numError(<<"invalid syntax">>)]
    ELSE AtoiRange(StripZeros(s))

\* C.uint(port): the int reduced modulo 2^32, digit by digit
RECURSIVE CUintFrom(_, _, _)
CUintFrom(digits, hi, lo) ==
    IF digits = <<>> THEN [hi |-> hi % 65536, lo |-> lo]
    ELSE CUintFrom(Tail(digits),
                   (hi % 65536) * 10 + ((lo * 10 + DigitVal(digits[1])) \div 65536),
                   (lo * 10 + DigitVal(digits[1])) % 65536)

CUint(val) == CUintFrom(val, 0, 0)

\* C.CString: the bytes of the Go string, then the terminating zero byte
CString(s) == s \o <<NUL>>

\* C.GoString, and every read of a char* on the C side: up to the first zero byte
GoString(p) == Cut(p, NUL).before

\* C.GoStringN
GoStringN(p, n) == SubSeq(p, 1, n)

NULL == <<>>

-----------------------------------------------------------------------------
(* splitServer                                                              *)

kSecProtocolTypeHTTPS == "htps"

kSecProtocolTypeHTTP == "http"

NilServer == [proto |-> "nil", host |-> <<>>, port |-> CUint(<<>>), path |-> <<>>]

SchemeChar(c) == IsLetter(c) \/ IsDigit(c) \/ c \in {"-", "+", "."}

\* regexp ^([a-zA-Z][-+.a-zA-Z0-9]+:)?// matches a prefix of serverURL
MatchString(serverURL) ==
    \/ HasPrefix(serverURL, <<"/", "/">>)
    \/ \E n \in 2..Len(serverURL) :
          /\ IsLetter(serverURL[1])
          /\ \A j \in 2..n : SchemeChar(serverURL[j])
          /\ HasPrefix(Drop(serverURL, n), <<":", "/", "/">>)

\* splitServerPort with the protocol left at its default
splitServerPort_DefaultProto(u, a) ==
    IF a.err # nil THEN [s |-> NilServer, err |-> a.err]
    ELSE [s |-> [proto |-> kSecProtocolTypeHTTPS,
                 host |-> CString(u.Host),
                 port |-> CUint(a.val),
                 path |-> CString(u.Path)],
          err |-> nil]

\* splitServer, from the port on: a is what strconv.Atoi returned
splitServerPort(u, a) ==
    IF a.err # nil THEN [s |-> NilServer, err |-> a.err]
    ELSE [s |-> [proto |-> IF u.Scheme = <<"h","t","t","p">>
                           THEN kSecProtocolTypeHTTP ELSE kSecProtocolTypeHTTPS,
                 host |-> CString(u.Host),
                 port |-> CUint(a.val),
                 path |-> CString(u.Path)],
          err |-> nil]

\* splitServerURL testing u.Host, port included, in place of u.Hostname()
splitServerURL_HostWithPort(u) ==
    IF /\ u.Scheme # <<>>
       /\ u.Scheme # <<"h","t","t","p","s">>
       /\ u.Scheme # <<"h","t","t","p">>
    THEN [s |-> NilServer, err |-> errorsNew(<<"unsupported scheme: ">> \o u.Scheme)]
    ELSE IF u.Host = <<>>
    THEN [s |-> NilServer, err |-> errorsNew(<<"no hostname in URL">>)]
    ELSE splitServerPort(u, IF Port(u) # <<>> THEN Atoi(Port(u))
                            ELSE [val |-> <<>>, err |-> nil])

\* splitServer, the checks on the parsed URL
splitServerURL(u) ==
    IF /\ u.Scheme # <<>>
       /\ u.Scheme # <<"h","t","t","p","s">>
       /\ u.Scheme # <<"h","t","t","p">>
    THEN [s |-> NilServer, err |-> errorsNew(<<"unsupported scheme: ">> \o u.Scheme)]
    ELSE IF Hostname(u) = <<>>
    THEN [s |-> NilServer, err |-> errorsNew(<<"no hostname in URL">>)]
    ELSE splitServerPort(u, IF Port(u) # <<>> THEN Atoi(Port(u))
                            ELSE [val |-> <<>>, err |-> nil])

\* splitServer, after url.Parse returned p
splitServerParsed(p) ==
    IF p.err # nil THEN [s |-> NilServer, err |-> p.err]
    ELSE splitServerURL(p.u)

splitServer(serverURL) ==
    splitServerParsed(urlParse(IF ~MatchString(serverURL)
                               THEN <<"/", "/">> \o serverURL ELSE serverURL))

-----------------------------------------------------------------------------
(* The keychain behind keychain_add, keychain_delete, keychain_get and     *)
(* keychain_list.  An item is stored under the server the C side reads     *)
(* from struct Server: every char* is read up to its first zero byte.      *)

\* credentials.CredsLabel
CredsLabel == <<"Docker Credentials">>

errDuplicateItem == <<"The specified item already exists in the keychain.">>

EmptyMap == [x \in {} |-> <<>>]

MapPut(m, k, v) == [x \in DOMAIN m \cup {k} |-> IF x = k THEN v ELSE m[x]]

MapDel(m, k) == [x \in DOMAIN m \ {k} |-> m[x]]

ServerKey(s) ==
    [proto |-> s.proto, host |-> GoString(s.host), port |-> s.port,
     path |-> GoString(s.path)]

\* the stored key keychain_list reports for an item: its server URL
StoredPath(k) ==
    (IF k.proto = kSecProtocolTypeHTTP THEN <<"h","t","t","p">>
     ELSE <<"h","t","t","p","s">>) \o <<":", "/", "/">> \o k.host \o k.path

\* fault: the message of a platform failure of this call, NULL for none
keychain_add(kc, s, label, username, secret, fault) ==
    IF fault # NULL THEN [kc |-> kc, errMsg |-> fault]
    ELSE IF ServerKey(s) \in DOMAIN kc
    THEN [kc |-> kc, errMsg |-> CString(errDuplicateItem)]
    ELSE [kc |-> MapPut(kc, ServerKey(s),
                        [label |-> GoString(label), acct |-> GoString(username),
                         secret |-> GoString(secret)]),
          errMsg |-> NULL]

keychain_delete(kc, s, fault) ==
    IF fault # NULL THEN [kc |-> kc, errMsg |-> fault]
    ELSE IF ServerKey(s) \notin DOMAIN kc
    THEN [kc |-> kc, errMsg |-> CString(errCredentialsNotFound)]
    ELSE [kc |-> MapDel(kc, ServerKey(s)), errMsg |-> NULL]

keychain_get(kc, s, fault) ==
    IF fault # NULL \/ ServerKey(s) \notin DOMAIN kc
    THEN [errMsg |-> IF fault # NULL THEN fault ELSE CString(errCredentialsNotFound),
          username |-> <<>>, usernameLen |-> 0, secret |-> <<>>, secretLen |-> 0]
    ELSE [errMsg |-> NULL,
          username |-> kc[ServerKey(s)].acct,
          usernameLen |-> Len(kc[ServerKey(s)].acct),
          secret |-> kc[ServerKey(s)].secret,
          secretLen |-> Len(kc[ServerKey(s)].secret)]

\* the labelled items of the keychain: the helper's own, and those other
\* programs stored under the same label
Labelled(kc, others, label) ==
    {[src |-> "helper", path |-> StoredPath(k), acct |-> kc[k].acct] :
        k \in {x \in DOMAIN kc : kc[x].label = GoString(label)}}
    \cup {[src |-> "other", path |-> o.path, acct |-> o.acct] : o \in others}

\* the orders in which the platform may enumerate a set of items
Enumerations(items) ==
    {e \in [1..Cardinality(items) -> items] :
        \A i, j \in DOMAIN e : i # j => e[i] # e[j]}

\* enum: the enumeration the platform answers with
keychain_list(enum, fault) ==
    IF fault # NULL
    THEN [errMsg |-> fault, paths |-> <<>>, accts |-> <<>>, listLen |-> 0]
    ELSE [errMsg |-> NULL,
          paths |-> [i \in DOMAIN enum |-> CString(enum[i].path)],
          accts |-> [i \in DOMAIN enum |-> CString(enum[i].acct)],
          listLen |-> Len(enum)]

-----------------------------------------------------------------------------
(* The four operations of Osxkeychain.  Each yields the keychain it leaves, *)
(* what it returns, and the platform primitives it invoked.                 *)

Result(kc, err, calls) ==
    [kc |-> kc, err |-> err, user |-> <<>>, pass |-> <<>>, resp |-> EmptyMap,
     calls |-> calls, errMsg |-> NULL]

\* DeleteDone translating the not-found message the way Get does
DeleteDone_Typed(r) ==
    IF r.errMsg # NULL
    THEN IF GoString(r.errMsg) = errCredentialsNotFound
         THEN [Result(r.kc, NewErrCredentialsNotFound, <<"keychain_delete">>)
                  EXCEPT !.errMsg = r.errMsg]
         ELSE [Result(r.kc, errorsNew(GoString(r.errMsg)), <<"keychain_delete">>)
                  EXCEPT !.errMsg = r.errMsg]
    ELSE Result(r.kc, nil, <<"keychain_delete">>)

\* Delete, after keychain_delete returned r
DeleteDone(r) ==
    IF r.errMsg # NULL
    THEN [Result(r.kc, errorsNew(GoString(r.errMsg)), <<"keychain_delete">>)
             EXCEPT !.errMsg = r.errMsg]
    ELSE Result(r.kc, nil, <<"keychain_delete">>)

\* DeleteServer passing a server whose protocol is the default one
DeleteServer_DefaultProto(kc, sp, fault) ==
    IF sp.err # nil THEN Result(kc, sp.err, <<>>)
    ELSE DeleteDone(keychain_delete(kc, [sp.s EXCEPT !.proto = kSecProtocolTypeHTTPS],
                                    fault))

\* Delete, after splitServer returned sp
DeleteServer(kc, sp, fault) ==
    IF sp.err # nil THEN Result(kc, sp.err, <<>>)
    ELSE DeleteDone(keychain_delete(kc, sp.s, fault))

Delete(kc, serverURL, fault) == DeleteServer(kc, splitServer(serverURL), fault)

\* Add, after keychain_add returned r; calls are the primitives invoked so far
AddDone(r, calls) ==
    IF r.errMsg # NULL
    THEN [Result(r.kc, errorsNew(GoString(r.errMsg)), calls) EXCEPT !.errMsg = r.errMsg]
    ELSE Result(r.kc, nil, calls)

\* Add, after h.Delete returned d and splitServer returned sp
AddServer(d, sp, creds, fault) ==
    IF sp.err # nil THEN Result(d.kc, sp.err, d.calls)
    ELSE AddDone(keychain_add(d.kc, sp.s, CString(CredsLabel),
                              CString(creds.Username), CString(creds.Secret), fault),
                 d.calls \o <<"keychain_add">>)

Add(kc, creds, faultDelete, faultAdd) ==
    AddServer(Delete(kc, creds.ServerURL, faultDelete), splitServer(creds.ServerURL),
              creds, faultAdd)

\* GetDone without the translation of the not-found message
GetDone_Untyped(kc, r) ==
    IF r.errMsg # NULL
    THEN [Result(kc, errorsNew(GoString(r.errMsg)), <<"keychain_get">>)
             EXCEPT !.errMsg = r.errMsg]
    ELSE [Result(kc, nil, <<"keychain_get">>)
             EXCEPT !.user = GoStringN(r.username, r.usernameLen),
                    !.pass = GoStringN(r.secret, r.secretLen)]

\* Get, after keychain_get returned r
GetDone(kc, r) ==
    IF r.errMsg # NULL
    THEN IF GoString(r.errMsg) = errCredentialsNotFound
         THEN [Result(kc, NewErrCredentialsNotFound, <<"keychain_get">>)
                  EXCEPT !.errMsg = r.errMsg]
         ELSE [Result(kc, errorsNew(GoString(r.errMsg)), <<"keychain_get">>)
                  EXCEPT !.errMsg = r.errMsg]
    ELSE [Result(kc, nil, <<"keychain_get">>)
             EXCEPT !.user = GoStringN(r.username, r.usernameLen),
                    !.pass = GoStringN(r.secret, r.secretLen)]

\* Get, after splitServer returned sp
GetServer(kc, sp, fault) ==
    IF sp.err # nil THEN Result(kc, sp.err, <<>>)
    ELSE GetDone(kc, keychain_get(kc, sp.s, fault))

Get(kc, serverURL, fault) == GetServer(kc, splitServer(serverURL), fault)

\* ListLoop without the test for "0"
RECURSIVE ListLoop_NoSkip(_, _, _, _)
ListLoop_NoSkip(pathTmp, acctTmp, i, resp) ==
    IF i > Len(pathTmp) THEN resp
    ELSE ListLoop_NoSkip(pathTmp, acctTmp, i + 1,
                         MapPut(resp, GoString(pathTmp[i]), GoString(acctTmp[i])))

\* the loop of List over pathTmp and acctTmp, from index i
RECURSIVE ListLoop(_, _, _, _)
ListLoop(pathTmp, acctTmp, i, resp) ==
    IF i > Len(pathTmp) THEN resp
    ELSE IF GoString(pathTmp[i]) = <<"0">>
    THEN ListLoop(pathTmp, acctTmp, i + 1, resp)
    ELSE ListLoop(pathTmp, acctTmp, i + 1,
                  MapPut(resp, GoString(pathTmp[i]), GoString(acctTmp[i])))

\* List, after keychain_list returned r
ListDone(kc, r) ==
    IF r.errMsg # NULL
    THEN [Result(kc, errorsNew(GoString(r.errMsg)), <<"keychain_list">>)
             EXCEPT !.errMsg = r.errMsg]
    ELSE [Result(kc, nil, <<"keychain_list">>)
             EXCEPT !.resp = ListLoop(SubSeq(r.paths, 1, r.listLen),
                                      SubSeq(r.accts, 1, r.listLen), 1, EmptyMap)]

List(kc, enum, fault) == ListDone(kc, keychain_list(enum, fault))

-----------------------------------------------------------------------------
(* Inputs                                                                   *)

\* serverURL strings the operations are called with: two spellings of one
\* server, and the same host and path over http
ServerURLs ==
    { <<"h", "/", "p">>,
      <<"h","t","t","p","s", ":", "/", "/", "h", "/", "p">>,
      <<"h","t","t","p", ":", "/", "/", "h", "/", "p">> }

\* two spellings of one server
OneServerURLs ==
    { <<"h", "/", "p">>,
      <<"h","t","t","p","s", ":", "/", "/", "h", "/", "p">> }

\* a plain server, and strings with an odd scheme, no host or a bad port
EdgeURLs ==
    { <<"h", "/", "p">>,
      <<"a", ":", "/", "/", "h">>,
      <<"f","t","p", ":", "/", "/">>,
      <<"h","t","t","p","s", ":", "/", "/">>,
      <<>>,
      <<"h","o","s","t", ":", "n","o","t","a","n","u","m","b","e","r", "/", "p","a","t","h">> }

Usernames == { <<"u">>, <<"v">> }

Secrets == { <<"s">>, <<"t", NUL, "x">> }

\* the parts serverURL strings are put together from, for splitServer alone
Prefixes ==
    { <<>>, <<"/", "/">>, <<"/">>,
      <<"h","t","t","p", ":", "/", "/">>,
      <<"h","t","t","p","s", ":", "/", "/">>,
      <<"H","T","T","P", ":", "/", "/">>,
      <<"f","t","p", ":", "/", "/">>,
      <<"a", ":", "/", "/">>,
      <<"h","t","t","p", ":">> }

Hosts == { <<>>, <<"h">>, <<"g", ".", "i", "o">>, <<"u", "@", "h">> }

Ports ==
    { <<>>, <<":">>, <<":", "8", "0">>, <<":", "0", "8", "0">>, <<":", "x">>,
      <<":", "4","2","9","4","9","6","7","3","7","6">>,
      <<":", "9","2","2","3","3","7","2","0","3","6","8","5","4","7","7","5","8","0","7">>,
      <<":", "9","2","2","3","3","7","2","0","3","6","8","5","4","7","7","5","8","0","8">>,
      <<":", "9","9","9","9","9","9","9","9","9","9","9","9","9","9","9","9","9","9","9","9">> }

Paths == { <<>>, <<"/">>, <<"/", "p">>, <<"/", "p", ":", "1">>, <<"?", "q">>,
           <<"#", "f">>, <<"/", NUL>> }

NormURLs == {a \o b \o c \o d : a \in Prefixes, b \in Hosts, c \in Ports, d \in Paths}

\* what a call of a platform primitive may fail with
NoFaults == {NULL}

Faults == {NULL, CString(<<"User interaction is not allowed.">>)}

\* items other programs may have stored under the helper's label
OtherItems ==
    { [path |-> <<"0">>, acct |-> <<"u">>],
      [path |-> <<"k">>, acct |-> <<"u">>],
      [path |-> <<"k">>, acct |-> <<"v">>],
      [path |-> <<"h","t","t","p","s", ":", "/", "/", "h", "/", "p">>, acct |-> <<"w">>] }

MaxOthers == 2

-----------------------------------------------------------------------------
(* The state: the keychain, the labelled items of other programs in it,    *)
(* and the most recent calls with what they returned.                      *)

Call(op, url, username, secret, enum, s, r) ==
    [op |-> op, url |-> url, username |-> username, secret |-> secret,
     enum |-> enum, s |-> s, err |-> r.err, user |-> r.user, pass |-> r.pass,
     resp |-> r.resp, calls |-> r.calls, errMsg |-> r.errMsg]

\* hist keeps the last depth calls
Push(h, c, depth) == IF Len(h) < depth THEN Append(h, c) ELSE Append(Tail(h), c)

Init ==
    /\ keychain = EmptyMap
    /\ foreign = {}
    /\ hist = <<>>
    /\ input = <<>>

\* a string is given to splitServer
InitNorm ==
    /\ keychain = EmptyMap
    /\ foreign = {}
    /\ hist = <<>>
    /\ input \in NormURLs

InitOthers ==
    /\ keychain = EmptyMap
    /\ foreign \in {o \in SUBSET OtherItems : Cardinality(o) <= MaxOthers}
    /\ hist = <<>>
    /\ input = <<>>

\* a call returned r: the keychain is as the call left it, and hist has the call
Returned(op, url, username, secret, enum, r, depth) ==
    /\ keychain' = r.kc
    /\ hist' = Push(hist, Call(op, url, username, secret, enum, NilServer, r), depth)
    /\ UNCHANGED <<foreign, input>>

CallAdd(F, URLs, depth) ==
    \E url \in URLs, username \in Usernames, secret \in Secrets, fd \in F, fa \in F :
        Returned("Add", url, username, secret, <<>>,
                 Add(keychain,
                     [ServerURL |-> url, Username |-> username, Secret |-> secret],
                     fd, fa),
                 depth)

CallDelete(F, URLs, depth) ==
    \E url \in URLs, f \in F :
        Returned("Delete", url, <<>>, <<>>, <<>>, Delete(keychain, url, f), depth)

CallGet(F, URLs, depth) ==
    \E url \in URLs, f \in F :
        Returned("Get", url, <<>>, <<>>, <<>>, Get(keychain, url, f), depth)

CallList(F, depth) ==
    \E enum \in Enumerations(Labelled(keychain, foreign, CString(CredsLabel))), f \in F :
        Returned("List", <<>>, <<>>, <<>>, enum, List(keychain, enum, f), depth)

\* splitServer returned sp for the string given
SplitServerReturned(sp) ==
    hist' = <<Call("splitServer", input, <<>>, <<>>, <<>>, sp.s,
                   Result(keychain, sp.err, <<>>))>>

\* splitServer applied to a string, on its own
CallSplitServer ==
    /\ hist = <<>>
    /\ SplitServerReturned(splitServer(input))
    /\ UNCHANGED <<keychain, foreign, input>>

\* the four operations on the helper's own keychain items, the platform
\* working; the last two calls are remembered
Next ==
    \/ CallAdd(NoFaults, ServerURLs, 2)
    \/ CallDelete(NoFaults, ServerURLs, 2)
    \/ CallGet(NoFaults, ServerURLs, 2)
    \/ CallList(NoFaults, 2)

Spec == Init /\ [][Next]_vars

\* the same on one server, the last three calls remembered
NextSeq ==
    \/ CallAdd(NoFaults, OneServerURLs, 3)
    \/ CallDelete(NoFaults, OneServerURLs, 3)
    \/ CallGet(NoFaults, OneServerURLs, 3)
    \/ CallList(NoFaults, 3)

SpecSeq == Init /\ [][NextSeq]_vars

\* any call of a primitive may fail; the last call is remembered
NextFault ==
    \/ CallAdd(Faults, EdgeURLs, 1)
    \/ CallDelete(Faults, EdgeURLs, 1)
    \/ CallGet(Faults, EdgeURLs, 1)
    \/ CallList(Faults, 1)

SpecFault == Init /\ [][NextFault]_vars

\* other programs' items are in the keychain under the helper's label
NextList ==
    \/ CallAdd(NoFaults, ServerURLs, 1)
    \/ CallDelete(NoFaults, ServerURLs, 1)
    \/ CallList(Faults, 1)

SpecList == InitOthers /\ [][NextList]_vars

NextNorm == CallSplitServer

SpecNorm == InitNorm /\ [][NextNorm]_vars

-----------------------------------------------------------------------------
(* Properties                                                               *)

Last == hist[Len(hist)]

Prev == hist[Len(hist) - 1]

Normalizes(url) == splitServer(url).err = nil

KeyOf(url) == ServerKey(splitServer(url).s)

\* the spec's error kinds, as the errors splitServer returns
UnsupportedScheme(err, scheme) ==
    err = errorsNew(<<"unsupported scheme: ">> \o scheme)

MissingHost(err) == err = errorsNew(<<"no hostname in URL">>)

InvalidPort(err) ==
    \/ err = urlError(<<"invalid port after host">>)
    \/ err.type = "strconv.NumError"

U_hp == <<"h", "/", "p">>

U_https_hp == <<"h","t","t","p","s", ":", "/", "/", "h", "/", "p">>

U_http_hp == <<"h","t","t","p", ":", "/", "/", "h", "/", "p">>

\* C1: when Add(serverURL, username, secret) returned no error, a Get(serverURL)
\* that follows it directly returns that username and that secret and no error.
C1_RoundTrip ==
    (/\ Len(hist) >= 2
     /\ Prev.op = "Add" /\ Prev.err = nil
     /\ Last.op = "Get" /\ Last.url = Prev.url)
    => /\ Last.err = nil
       /\ Last.user = Prev.username
       /\ Last.pass = Prev.secret

\* C2: a call that returns an error leaves the keychain as it was before the call.
C2_NoPartialMutation ==
    [][ (hist' # <<>> /\ Last'.err # nil) => keychain' = keychain ]_vars

\* C3: after Add(serverURL, u1, s1) and then Add(serverURL, u2, s2), both without
\* error, Get(serverURL) returns (u2, s2); the keychain holds one entry for the
\* key, and s1 is neither returned by Get nor shown by List.
C3_Overwrite ==
    (/\ Len(hist) = 3
     /\ hist[1].op = "Add" /\ hist[1].err = nil
     /\ hist[2].op = "Add" /\ hist[2].err = nil /\ hist[2].url = hist[1].url
     /\ hist[3].op = "Get" /\ hist[3].url = hist[1].url)
    => /\ hist[3].err = nil
       /\ hist[3].user = hist[2].username
       /\ hist[3].pass = hist[2].secret
       /\ Cardinality(DOMAIN keychain) = 1
       /\ hist[1].secret # hist[2].secret =>
            /\ hist[3].pass # hist[1].secret
            /\ \A e \in Enumerations(Labelled(keychain, foreign, CString(CredsLabel))) :
                 \A k \in DOMAIN List(keychain, e, NULL).resp :
                    List(keychain, e, NULL).resp[k] # hist[1].secret

\* a platform failure other than "no such item" was answered to the last call
Failed(c) == c.errMsg # NULL /\ GoString(c.errMsg) # errCredentialsNotFound

\* C4: Get(serverURL), for a serverURL that normalizes and has no entry in the
\* keychain, returns the typed errCredentialsNotFound error and empty username
\* and secret; any other platform failure of Get comes back as a plain error
\* carrying the platform's message, never as errCredentialsNotFound.
C4_GetNotFound ==
    (hist # <<>> /\ Last.op = "Get" /\ Normalizes(Last.url))
    => /\ (KeyOf(Last.url) \notin DOMAIN keychain /\ ~Failed(Last))
            => /\ Last.err = NewErrCredentialsNotFound
               /\ Last.user = <<>>
               /\ Last.pass = <<>>
       /\ Failed(Last)
            => /\ Last.err = errorsNew(GoString(Last.errMsg))
               /\ Last.err.type # NewErrCredentialsNotFound.type

C4_Witness ==
    /\ hist # <<>> /\ Last.op = "Get" /\ Normalizes(Last.url)
    /\ KeyOf(Last.url) \notin DOMAIN keychain
    /\ Last.err = NewErrCredentialsNotFound
    /\ keychain # EmptyMap

\* C5: Delete(serverURL), for a serverURL that normalizes and has no entry in the
\* keychain, returns an error: a plain one carrying the platform's message, not
\* the typed errCredentialsNotFound of Get; the keychain is unchanged.
C5_DeleteMissing ==
    [][ (/\ Last'.op = "Delete"
         /\ Normalizes(Last'.url)
         /\ KeyOf(Last'.url) \notin DOMAIN keychain)
        => /\ Last'.errMsg # NULL
           /\ Last'.err = errorsNew(GoString(Last'.errMsg))
           /\ Last'.err.type # NewErrCredentialsNotFound.type
           /\ keychain' = keychain ]_vars

C5_Witness ==
    /\ hist # <<>> /\ Last.op = "Delete" /\ Normalizes(Last.url)
    /\ Last.err = errorsNew(errCredentialsNotFound)
    /\ keychain # EmptyMap

\* the last index at which the enumeration e holds the stored key k
LastOccurrence(e, k) ==
    CHOOSE i \in DOMAIN e : e[i].path = k /\ \A j \in (i + 1)..Len(e) : e[j].path # k

\* C6: List, when the enumeration succeeds, returns a map with one entry for
\* every enumerated stored key other than "0", none for "0", no secret, and
\* for a key enumerated twice the username of its last occurrence; the servers
\* added are all in it.
C6_List ==
    (hist # <<>> /\ Last.op = "List" /\ Last.err = nil)
    => /\ DOMAIN Last.resp = {Last.enum[i].path : i \in DOMAIN Last.enum} \ {<<"0">>}
       /\ \A k \in DOMAIN Last.resp :
            /\ Last.resp[k] = Last.enum[LastOccurrence(Last.enum, k)].acct
            /\ \A x \in DOMAIN keychain : Last.resp[k] # keychain[x].secret
       /\ \A x \in DOMAIN keychain : StoredPath(x) \in DOMAIN Last.resp

C6_Witness ==
    /\ hist # <<>> /\ Last.op = "List" /\ Last.err = nil
    /\ Cardinality(DOMAIN keychain) = 2
    /\ \E i \in DOMAIN Last.enum : Last.enum[i].path = <<"0">>
    /\ \E i, j \in DOMAIN Last.enum :
          /\ i < j
          /\ Last.enum[i].path = Last.enum[j].path
          /\ Last.enum[i].acct # Last.enum[j].acct
          /\ Last.resp[Last.enum[j].path] = Last.enum[j].acct

-----------------------------------------------------------------------------
(* splitServer on its own: what the string given holds                     *)

\* the string as splitServer hands it to url.Parse
Prepared(url) == IF ~MatchString(url) THEN <<"/", "/">> \o url ELSE url

\* the scheme url.Parse finds in the string (lower-cased), <<>> for none
SchemeOf(url) == ToLower(getScheme(Prepared(url)).scheme)

\* a host can be extracted: the string parses and its host name is not empty
HostExtracted(url) ==
    /\ urlParse(Prepared(url)).err = nil
    /\ Hostname(urlParse(Prepared(url)).u) # <<>>

\* the port of the string, when it parses
PortOf(url) == Port(urlParse(Prepared(url)).u)

\* C7 as stated: for a string without scheme, splitServer succeeds iff a host
\* can be extracted, and then the protocol is HTTPS; the protocol is HTTP only
\* for the scheme http.
C7_AsStated ==
    (hist # <<>> /\ Last.op = "splitServer")
    => /\ SchemeOf(Last.url) = <<>>
            => /\ (Last.err = nil) <=> HostExtracted(Last.url)
               /\ Last.err = nil => Last.s.proto = kSecProtocolTypeHTTPS
       /\ Last.s.proto = kSecProtocolTypeHTTP => SchemeOf(Last.url) = <<"h","t","t","p">>

\* C7, amended: for a string without scheme, splitServer succeeds iff a host
\* can be extracted and the port, when there is one, fits a Go int; when it
\* succeeds the protocol is HTTPS.  The protocol is HTTP only for the scheme
\* http.
C7_SchemeDefault ==
    (hist # <<>> /\ Last.op = "splitServer")
    => /\ SchemeOf(Last.url) = <<>>
            => /\ (Last.err = nil) <=>
                     /\ HostExtracted(Last.url)
                     /\ PortOf(Last.url) # <<>> => Atoi(PortOf(Last.url)).err = nil
               /\ Last.err = nil => Last.s.proto = kSecProtocolTypeHTTPS
       /\ Last.s.proto = kSecProtocolTypeHTTP => SchemeOf(Last.url) = <<"h","t","t","p">>

C7_Witness ==
    /\ hist # <<>> /\ Last.op = "splitServer"
    /\ SchemeOf(Last.url) = <<>>
    /\ HostExtracted(Last.url)
    /\ PortOf(Last.url) # <<>>
    /\ Last.err.type = "strconv.NumError"

-----------------------------------------------------------------------------
(* The operations and splitServer together                                  *)

\* the scheme a string starts with, as RFC 3986, section 3.1 has it: a letter,
\* then letters, digits, "+", "-" or ".", up to "://"; <<>> for none
RFCSchemeOf(url) ==
    IF \E n \in 1..Len(url) :
          /\ IsLetter(url[1])
          /\ \A j \in 2..n : SchemeChar(url[j])
          /\ HasPrefix(Drop(url, n), <<":", "/", "/">>)
    THEN SubSeq(url, 1, Index(url, ":") - 1)
    ELSE <<>>

\* C8: a scheme other than none, http and https is rejected as unsupported,
\* before the host is looked at; https:// and the empty string are rejected for
\* their missing host; host:notanumber/path for its port; no port gives port 0.
\* Add, Delete and Get return that error and invoke no platform primitive.
C8_Rejects ==
    (hist # <<>> /\ Last.op \in {"Add", "Delete", "Get"})
    => /\ RFCSchemeOf(Last.url) \notin {<<>>, <<"h","t","t","p">>, <<"h","t","t","p","s">>}
            => /\ UnsupportedScheme(Last.err, RFCSchemeOf(Last.url))
               /\ Last.calls = <<>>
       /\ Last.url \in {<<"h","t","t","p","s", ":", "/", "/">>, <<>>}
            => /\ MissingHost(Last.err)
               /\ Last.calls = <<>>
       /\ Last.url = <<"h","o","s","t", ":", "n","o","t","a","n","u","m","b","e","r",
                       "/", "p","a","t","h">>
            => /\ InvalidPort(Last.err)
               /\ Last.calls = <<>>
       /\ Last.url = U_hp
            => /\ Normalizes(Last.url)
               /\ splitServer(Last.url).s.port = CUint(<<>>)

\* two of the strings the operations are called with name one server
SameServer(a, b) == (a \in OneServerURLs) <=> (b \in OneServerURLs)

\* the entry a successful Add leaves in the keychain
Stored(c) ==
    [label |-> CredsLabel, acct |-> GoString(CString(c.username)),
     secret |-> GoString(CString(c.secret))]

\* C9: the keychain is addressed by the normalized server.  h/p and
\* https://h/p are one key: after an Add with one of them, a Get with the other
\* returns that entry, a Delete removes it, an Add replaces it.  http://h/p is
\* another key: calls with it leave that entry alone, and a Get with it does
\* not return it.
C9_NormalizedKey ==
    /\ \A a, b \in ServerURLs :
          /\ Normalizes(a)
          /\ (KeyOf(a) = KeyOf(b)) <=> SameServer(a, b)
    /\ (/\ Len(hist) >= 2
        /\ Prev.op = "Add" /\ Prev.err = nil
        /\ Last.op \in {"Add", "Delete", "Get"})
       => IF SameServer(Prev.url, Last.url)
          THEN /\ Last.err = nil
               /\ Last.op = "Get" =>
                    /\ Last.user = Stored(Prev).acct
                    /\ Last.pass = Stored(Prev).secret
                    /\ keychain[KeyOf(Prev.url)] = Stored(Prev)
               /\ Last.op = "Delete" => KeyOf(Prev.url) \notin DOMAIN keychain
               /\ Last.op = "Add" => keychain[KeyOf(Prev.url)] = Stored(Last)
          ELSE /\ KeyOf(Prev.url) \in DOMAIN keychain
               /\ keychain[KeyOf(Prev.url)] = Stored(Prev)
               /\ Last.op = "Get" =>
                    IF KeyOf(Last.url) \in DOMAIN keychain
                    THEN /\ Last.user = keychain[KeyOf(Last.url)].acct
                         /\ Last.pass = keychain[KeyOf(Last.url)].secret
                    ELSE Last.err = NewErrCredentialsNotFound

C9_Witness ==
    /\ Len(hist) >= 2
    /\ Prev.op = "Add" /\ Prev.err = nil /\ Prev.url = U_hp
    /\ Last.op = "Get" /\ Last.err = nil /\ Last.url = U_https_hp
    /\ Last.user = Prev.username
    /\ KeyOf(U_http_hp) \in DOMAIN keychain
    /\ keychain[KeyOf(U_http_hp)].acct # Last.user

\* C10: Get and List never change the keychain; a Delete that returns no error
\* removes the entry at its key and no other, and a Get of that serverURL right
\* after it returns errCredentialsNotFound; Add and Delete leave the entries
\* at every other key as they were.
C10_Frame ==
    [][ /\ Last'.op \in {"Get", "List"} => keychain' = keychain
        /\ (Last'.op = "Delete" /\ Last'.err = nil)
              => /\ KeyOf(Last'.url) \in DOMAIN keychain
                 /\ keychain' = MapDel(keychain, KeyOf(Last'.url))
        /\ Last'.op \in {"Add", "Delete"}
              => \A k \in (DOMAIN keychain \cup DOMAIN keychain') \ {KeyOf(Last'.url)} :
                    /\ k \in DOMAIN keychain
                    /\ k \in DOMAIN keychain'
                    /\ keychain'[k] = keychain[k]
        /\ (/\ Len(hist') >= 2
            /\ Prev'.op = "Delete" /\ Prev'.err = nil
            /\ Last'.op = "Get" /\ Last'.url = Prev'.url)
              => Last'.err = NewErrCredentialsNotFound ]_vars

C10_Witness ==
    /\ Len(hist) >= 2
    /\ Prev.op = "Delete" /\ Prev.err = nil
    /\ Last.op = "Get" /\ Last.url = Prev.url
    /\ Last.err = NewErrCredentialsNotFound
    /\ keychain # EmptyMap

====
